---------------------------- MODULE Spec2Model ----------------------------
(***************************************************************************)
(* A model of the graph-construction core of the NPU acceleration library: *)
(*   backend/tensor.py   Tensor handles, create_tensor, __generate_op      *)
(*   backend/ops.py      SupportedOp, get_supported_ops (memoised)         *)
(*   backend/qmatmul.py  QMatMul.__init__ and QMatMul.run                  *)
(*                                                                         *)
(* The backend graph of a factory is a sequence of nodes; a node reference *)
(* (the ctypes pointer of the source) is the node's position in it.  The   *)
(* factory (NNFactory) and the native library (backend_lib) are not part   *)
(* of these files: what they return is an input of the handler that calls  *)
(* them, and a foreign call may fail.                                      *)
(***************************************************************************)
EXTENDS Integers, Sequences, FiniteSets, TLC

VARIABLES
    graph,      \* factory -> sequence of nodes committed to its backend graph
    handles,    \* the Tensor objects created so far
    cache,      \* lru_cache of get_supported_ops: <<>> or <<the list>>
    returned,   \* the lists the calls of get_supported_ops returned, in order
    last,       \* the last call on tensor.py and its outcome
    layer,      \* the QMatMul object (qmatmul.py), NoLayer before __init__
    runs,       \* number of super().run calls the QMatMul object has made
    qlast       \* the last QMatMul.run call and its outcome

vars == <<graph, handles, cache, returned, last, layer, runs, qlast>>

tensorVars == <<graph, handles, cache, returned, last>>
qmatmulVars == <<layer, runs, qlast>>

---------------------------------------------------------------------------
(* Bounds of the model *)

\* nodes over all graphs
MaxNodes == 2
\* recorded calls of get_supported_ops
MaxRegistryCalls == 2
\* counted calls of NNFactory.run
MaxRuns == 2

\* two factories, so that handles of different owners meet
Factories == {1, 2}
\* shapes the backend may report for an operation node: rank 0, 2 and 4
Shapes == {<<>>, <<4, 5>>, <<2, 3, 4, 5>>}
\* shapes passed to create_tensor
ParamShapes == {<<>>, <<4, 5>>}
\* type codes backend_lib.op_dtype may report (the table covers 2..11)
DtypeCodes == 0 .. 12
\* axis arguments of unsqueeze
Axes == {0}
\* extents of the QMatMul dimensions and of its run arguments
Dims == {1, 2}

---------------------------------------------------------------------------
(* Helpers *)

RECURSIVE SumLen(_, _)
SumLen(G, F) ==
    IF F = {} THEN 0
    ELSE LET f == CHOOSE x \in F : TRUE
         IN Len(G[f]) + SumLen(G, F \ {f})

TotalNodes(G) == SumLen(G, Factories)

IsPrefix(s, t) == Len(s) <= Len(t) /\ \A i \in DOMAIN s : s[i] = t[i]

---------------------------------------------------------------------------
(* ops.py: the catalogue of backend operations *)

\* dataclass SupportedOp(name, inputs, parameters = ())
SupportedOp(name, inputs, parameters) ==
    [name |-> name, inputs |-> inputs, parameters |-> parameters]

\* the literal list built in the body of get_supported_ops
supported_ops == <<
    SupportedOp("matmul", 2, <<>>),
    SupportedOp("eltwise_add", 2, <<>>),
    SupportedOp("eltwise_mul", 2, <<>>),
    SupportedOp("eltwise_div", 2, <<>>),
    SupportedOp("abs_act", 1, <<>>),
    SupportedOp("acos_act", 1, <<>>),
    SupportedOp("asin_act", 1, <<>>),
    SupportedOp("atan_act", 1, <<>>),
    SupportedOp("ceiling", 1, <<>>),
    SupportedOp("clamp", 1, <<"c_float", "c_float">>),
    SupportedOp("cos_act", 1, <<>>),
    SupportedOp("cosh_act", 1, <<>>),
    SupportedOp("erf_act", 1, <<>>),
    SupportedOp("elu", 1, <<"c_float">>),
    SupportedOp("exp_act", 1, <<>>),
    SupportedOp("floor_act", 1, <<>>),
    SupportedOp("grn", 1, <<"c_float">>),
    SupportedOp("gelu", 1, <<>>),
    SupportedOp("log_act", 1, <<>>),
    SupportedOp("negative", 1, <<>>),
    SupportedOp("relu", 1, <<>>),
    SupportedOp("sigmoid", 1, <<>>),
    SupportedOp("sign", 1, <<>>),
    SupportedOp("sin_act", 1, <<>>),
    SupportedOp("sinh_act", 1, <<>>),
    SupportedOp("sqrt_act", 1, <<>>),
    SupportedOp("tan_act", 1, <<>>),
    SupportedOp("tanh_act", 1, <<>>),
    SupportedOp("acosh_act", 1, <<>>),
    SupportedOp("asinh_act", 1, <<>>),
    SupportedOp("atanh_act", 1, <<>>),
    SupportedOp("hswish", 1, <<>>),
    SupportedOp("mish", 1, <<>>),
    SupportedOp("softplus", 1, <<>>),
    SupportedOp("hsigmoid", 1, <<>>),
    SupportedOp("round_act", 1, <<>>),
    SupportedOp("softsign", 1, <<>>),
    SupportedOp("softmax", 1, <<>>),
    SupportedOp("swish", 1, <<>>),
    SupportedOp("convert_to_fp16", 1, <<>>),
    SupportedOp("scaled_dot_product_attention", 4, <<"c_bool">>)
    >>

\* C6 mutant: no memoisation, and the list is extended again by every call
get_supported_ops_extended(c) ==
    IF c = <<>>
    THEN [ret |-> supported_ops, cache |-> <<supported_ops>>]
    ELSE [ret |-> c[1] \o supported_ops, cache |-> <<c[1] \o supported_ops>>]

\* C5 mutant: the list has lost its entry for "negative"
get_supported_ops_without_negative(c) ==
    LET kept == SelectSeq(supported_ops, LAMBDA e : e.name /= "negative")
    IN  [ret |-> kept, cache |-> <<kept>>]

\* @lru_cache(maxsize=None) around a function of no arguments: the first
\* call evaluates the body and stores the list, later calls return the
\* stored object.  c is the cache, <<>> while empty.
get_supported_ops(c) ==
    IF c = <<>>
    THEN [ret |-> supported_ops, cache |-> <<supported_ops>>]
    ELSE [ret |-> c[1], cache |-> c]

\* what a caller reads off the catalogue: is there an entry of this name
\* and input count
HasEntry(ops, name, n) ==
    \E i \in DOMAIN ops : ops[i].name = name /\ ops[i].inputs = n

---------------------------------------------------------------------------
(* tensor.py: name resolution inside the body of class Tensor *)

\* An identifier is kept as its pieces: <<"__", "generate_op">> is
\* __generate_op, <<"__", "add", "__">> is __add__.
GenerateOpName == <<"__", "generate_op">>

\* A private name: two leading underscores and no two trailing ones.
IsPrivateName(n) == Len(n) >= 2 /\ n[1] = "__" /\ n[Len(n)] /= "__"

\* The compiler rewrites a private name that occurs textually inside a class
\* definition to _<class><name>; any other identifier is left alone.
Mangle(cls, n) == IF IsPrivateName(n) THEN <<"_", cls>> \o n ELSE n

\* The names tensor.py binds at module level: its imports, create_tensor,
\* the class and the function defined with def __generate_op.
ModuleGlobals ==
    { <<"NNFactory">>, <<"backend_lib">>, <<"float16">>, <<"bfloat16">>,
      <<"float32">>, <<"float64">>, <<"int4">>, <<"int8">>, <<"int16">>,
      <<"int32">>, <<"int64">>, <<"NPUDtype">>, <<"dataclass">>,
      <<"Sequence">>, <<"Any">>, <<"np">>, <<"ctypes">>,
      <<"create_tensor">>, <<"Tensor">>, <<"__", "generate_op">> }

\* Does the name n, written inside class cls, find a module-level binding
Resolves(cls, n) == Mangle(cls, n) \in ModuleGlobals

---------------------------------------------------------------------------
(* tensor.py: handles and the core primitive *)

\* dataclass Tensor(factory, node)
Tensor(factory, node) == [factory |-> factory, node |-> node]

NoTensor == [factory |-> 0, node |-> 0]

\* the outcome of a call that may extend the graphs: the exception raised
\* ("none" when it returns), the graphs afterwards, the Tensor returned and
\* the Tensor objects constructed on the way
Outcome(exc, G, ret, made) == [exc |-> exc, graph |-> G, ret |-> ret, made |-> made]

\* factory.<op>(*nodes, *args): the factory's node constructor.  It appends
\* one node holding the operation, its input nodes and its parameters, and
\* returns the reference of the new node; the backend may reject the call
\* (ok = FALSE), which raises and appends nothing.
FactoryCall(G, f, op, nodes, args, ok) ==
    IF ok
    THEN [exc |-> "none",
          graph |-> [G EXCEPT ![f] = Append(@, [op |-> op, inputs |-> nodes, args |-> args])],
          node |-> Len(G[f]) + 1]
    ELSE [exc |-> "BackendError", graph |-> G, node |-> 0]

\* C10 mutant: a failed call discards the graph it was working on
generate_op_rollback(G, tensors, op, args, ok) ==
    IF Cardinality({tensors[i].factory : i \in DOMAIN tensors}) /= 1
    THEN Outcome("ValueError", [f \in Factories |-> <<>>], NoTensor, {})
    ELSE LET factory == tensors[1].factory
             nodes == [i \in DOMAIN tensors |-> tensors[i].node]
             r == FactoryCall(G, factory, op, nodes, args, ok)
         IN  IF r.exc = "none"
             THEN Outcome("none", r.graph, Tensor(factory, r.node), {Tensor(factory, r.node)})
             ELSE Outcome(r.exc, [G EXCEPT ![factory] = <<>>], NoTensor, {})

\* def __generate_op(tensors, op, *args)
generate_op(G, tensors, op, args, ok) ==
    IF Cardinality({tensors[i].factory : i \in DOMAIN tensors}) /= 1
    THEN Outcome("ValueError", G, NoTensor, {})
    ELSE LET factory == tensors[1].factory
             nodes == [i \in DOMAIN tensors |-> tensors[i].node]
             r == FactoryCall(G, factory, op, nodes, args, ok)
         IN  IF r.exc = "none"
             THEN Outcome("none", r.graph, Tensor(factory, r.node), {Tensor(factory, r.node)})
             ELSE Outcome(r.exc, G, NoTensor, {})

\* The call "__generate_op(...)" written in a method of class Tensor: the
\* callee is looked up first, under the name the compiler gave it there.
\* oks holds the backend's answer to each foreign call the method may make.
CallGenerateOp(G, tensors, op, args, oks) ==
    IF Resolves("Tensor", GenerateOpName)
    THEN generate_op(G, tensors, op, args, oks[1])
    ELSE Outcome("NameError", G, NoTensor, {})

\* the backend's possible answers to the n foreign calls of a method: none
\* is drawn when the method cannot reach a foreign call
ForeignAnswers(n) ==
    IF Resolves("Tensor", GenerateOpName)
    THEN [1 .. n -> BOOLEAN]
    ELSE {[i \in 1 .. n |-> TRUE]}

\* Tensor.__sub__: __generate_op([self, -other], "eltwise_add").  The callee
\* is looked up, then -other is evaluated (Tensor.__neg__), then the call is
\* made with the negation's handle as second operand.
SubOutcome(G, self, other, oks) ==
    IF ~Resolves("Tensor", GenerateOpName)
    THEN Outcome("NameError", G, NoTensor, {})
    ELSE LET neg == CallGenerateOp(G, <<other>>, "negative", <<>>, oks)
         IN  IF neg.exc /= "none"
             THEN neg
             ELSE LET r == generate_op(neg.graph, <<self, neg.ret>>, "eltwise_add", <<>>, oks[2])
                  IN  Outcome(r.exc, r.graph, r.ret, neg.made \cup r.made)

\* Tensor.shape: the rank and each extent are read from the backend.  A
\* graph input has the shape it was created with; the shape of an operation
\* node is the backend's inference, any shape as far as this code knows.
NodeShapes(G, t) ==
    LET n == G[t.factory][t.node]
    IN  IF n.op = "parameter" THEN {n.args} ELSE Shapes

\* Tensor.T, lines 209-210: list(range(rank)) with its last two entries
\* exchanged (axes are numbered from 0)
input_order(rank) ==
    [i \in 1 .. rank |->
        IF i = rank THEN rank - 2 ELSE IF i = rank - 1 THEN rank - 1 ELSE i - 1]

\* C4 mutant: a code outside the table falls back to float16
dtype_default_float16(dtype_int) ==
    IF dtype_int = 2 THEN [exc |-> "none", dt |-> "bool"]
    ELSE IF dtype_int = 3 THEN [exc |-> "none", dt |-> "bfloat16"]
    ELSE IF dtype_int = 5 THEN [exc |-> "none", dt |-> "float32"]
    ELSE IF dtype_int = 6 THEN [exc |-> "none", dt |-> "float64"]
    ELSE IF dtype_int = 7 THEN [exc |-> "none", dt |-> "int4"]
    ELSE IF dtype_int = 8 THEN [exc |-> "none", dt |-> "int8"]
    ELSE IF dtype_int = 9 THEN [exc |-> "none", dt |-> "int16"]
    ELSE IF dtype_int = 10 THEN [exc |-> "none", dt |-> "int32"]
    ELSE IF dtype_int = 11 THEN [exc |-> "none", dt |-> "int64"]
    ELSE [exc |-> "none", dt |-> "float16"]

\* Tensor.dtype: the chain of comparisons on the backend's type code; np.bool
\* and the names imported from dtypes are the types they are named after
dtype(dtype_int) ==
    IF dtype_int = 2 THEN [exc |-> "none", dt |-> "bool"]
    ELSE IF dtype_int = 3 THEN [exc |-> "none", dt |-> "bfloat16"]
    ELSE IF dtype_int = 4 THEN [exc |-> "none", dt |-> "float16"]
    ELSE IF dtype_int = 5 THEN [exc |-> "none", dt |-> "float32"]
    ELSE IF dtype_int = 6 THEN [exc |-> "none", dt |-> "float64"]
    ELSE IF dtype_int = 7 THEN [exc |-> "none", dt |-> "int4"]
    ELSE IF dtype_int = 8 THEN [exc |-> "none", dt |-> "int8"]
    ELSE IF dtype_int = 9 THEN [exc |-> "none", dt |-> "int16"]
    ELSE IF dtype_int = 10 THEN [exc |-> "none", dt |-> "int32"]
    ELSE IF dtype_int = 11 THEN [exc |-> "none", dt |-> "int64"]
    ELSE [exc |-> "RuntimeError", dt |-> ""]

RECURSIVE Product(_)
Product(s) == IF s = <<>> THEN 1 ELSE s[1] * Product(Tail(s))

\* np.product(self.shape), shape being a list of Python ints: the product as
\* an integer scalar, and for the empty list the float scalar 1.0 (an empty
\* list converts to an array of floats)
np_product(s) ==
    [kind |-> IF s = <<>> THEN "float" ELSE "int", value |-> Product(s)]

\* len(t): the value __len__ returns is converted with __index__, which an
\* integer scalar has and a float has not
builtin_len(r) ==
    IF r.kind = "int"
    THEN [exc |-> "none", val |-> <<r.value>>]
    ELSE [exc |-> "TypeError", val |-> <<>>]

---------------------------------------------------------------------------
(* tensor.py and ops.py: the operations *)

\* the record kept of a call: what was called on which handles, the
\* operation name and parameters it asked for, how it ended (exception,
\* Tensor returned) and, for a call that reads from the backend, what it
\* read (args: the type code, val: the shape)
Call(call, tensors, op, args, exc, ret, val, dt) ==
    [call |-> call, tensors |-> tensors, op |-> op, args |-> args,
     exc |-> exc, ret |-> ret, val |-> val, dt |-> dt]

\* a call that goes through __generate_op or the factory ends: the graphs
\* are what the call left, the Tensor objects it constructed exist
Finish(call, tensors, op, args, val, r) ==
    /\ TotalNodes(r.graph) <= MaxNodes
    /\ graph' = r.graph
    /\ handles' = handles \cup r.made
    /\ last' = Call(call, tensors, op, args, r.exc, r.ret, val, "")
    /\ UNCHANGED <<cache, returned>>
    /\ UNCHANGED qmatmulVars

\* a query ends: nothing but the record of the call changes
Answer(call, t, args, exc, val, dt) ==
    /\ last' = Call(call, <<t>>, "", args, exc, NoTensor, val, dt)
    /\ UNCHANGED <<graph, handles, cache, returned>>
    /\ UNCHANGED qmatmulVars

\* def create_tensor(factory, shape, dtype)
create_tensor(factory, shape, ok) ==
    LET r == FactoryCall(graph, factory, "parameter", <<>>, shape, ok)
        t == Tensor(factory, r.node)
    IN  Finish("create_tensor", <<>>, "parameter", shape, <<>>,
               IF r.exc = "none"
               THEN Outcome("none", r.graph, t, {t})
               ELSE Outcome(r.exc, graph, NoTensor, {}))

Tensor_add(self, other, oks) ==
    Finish("__add__", <<self, other>>, "eltwise_add", <<>>, <<>>,
           CallGenerateOp(graph, <<self, other>>, "eltwise_add", <<>>, oks))

Tensor_sub(self, other, oks) ==
    Finish("__sub__", <<self, other>>, "eltwise_add", <<>>, <<>>,
           SubOutcome(graph, self, other, oks))

Tensor_mul(self, other, oks) ==
    Finish("__mul__", <<self, other>>, "eltwise_mul", <<>>, <<>>,
           CallGenerateOp(graph, <<self, other>>, "eltwise_mul", <<>>, oks))

Tensor_truediv(self, other, oks) ==
    Finish("__truediv__", <<self, other>>, "eltwise_div", <<>>, <<>>,
           CallGenerateOp(graph, <<self, other>>, "eltwise_div", <<>>, oks))

Tensor_neg(self, oks) ==
    Finish("__neg__", <<self>>, "negative", <<>>, <<>>,
           CallGenerateOp(graph, <<self>>, "negative", <<>>, oks))

Tensor_matmul(self, other, oks) ==
    Finish("__matmul__", <<self, other>>, "matmul", <<>>, <<>>,
           CallGenerateOp(graph, <<self, other>>, "matmul", <<>>, oks))

Tensor_squeeze(self, oks) ==
    Finish("squeeze", <<self>>, "squeeze", <<>>, <<>>,
           CallGenerateOp(graph, <<self>>, "squeeze", <<>>, oks))

Tensor_unsqueeze(self, axis, oks) ==
    Finish("unsqueeze", <<self>>, "unsqueeze", <<axis>>, <<>>,
           CallGenerateOp(graph, <<self>>, "unsqueeze", <<axis>>, oks))

\* Tensor.T: with fewer than two axes the exchange of input_order[-1] and
\* input_order[-2] raises IndexError before anything is called
Tensor_T(self, oks) ==
    \E s \in NodeShapes(graph, self) :
        IF Len(s) < 2
        THEN Finish("T", <<self>>, "transpose", <<>>, s,
                    Outcome("IndexError", graph, NoTensor, {}))
        ELSE Finish("T", <<self>>, "transpose", input_order(Len(s)), s,
                    CallGenerateOp(graph, <<self>>, "transpose", input_order(Len(s)), oks))

Tensor_shape(self) ==
    \E s \in NodeShapes(graph, self) :
        Answer("shape", self, <<>>, "none", s, "")

Tensor_dtype(self) ==
    \E dtype_int \in DtypeCodes :
        LET r == dtype(dtype_int)
        IN  Answer("dtype", self, <<dtype_int>>, r.exc, <<>>, r.dt)

Tensor_len(self) ==
    \E s \in NodeShapes(graph, self) :
        LET r == builtin_len(np_product(s))
        IN  Answer("__len__", self, s, r.exc, r.val, "")

\* The argument lists the methods of Tensor pass to __generate_op, over the
\* handles H: the inputs of a call of the module-level function.
Requests(G, H) ==
    {[tensors |-> <<a, b>>, op |-> o, args |-> <<>>] :
        a \in H, b \in H, o \in {"eltwise_add", "eltwise_mul", "eltwise_div", "matmul"}}
    \cup {[tensors |-> <<a>>, op |-> o, args |-> <<>>] :
        a \in H, o \in {"negative", "squeeze"}}
    \cup {[tensors |-> <<a>>, op |-> "unsqueeze", args |-> <<axis>>] :
        a \in H, axis \in Axes}
    \cup UNION {{[tensors |-> <<a>>, op |-> "transpose", args |-> input_order(Len(s))] :
                    s \in {x \in NodeShapes(G, a) : Len(x) >= 2}} : a \in H}

\* a call of the module-level function __generate_op itself (from outside
\* the class body the name is not rewritten)
GenerateOp(req, ok) ==
    Finish("generate_op", req.tensors, req.op, req.args, <<>>,
           generate_op(graph, req.tensors, req.op, req.args, ok))

\* a call of get_supported_ops()
GetSupportedOps ==
    /\ Len(returned) < MaxRegistryCalls
    /\ LET r == get_supported_ops(cache)
       IN  /\ cache' = r.cache
           /\ returned' = Append(returned, r.ret)
    /\ UNCHANGED <<graph, handles, last>>
    /\ UNCHANGED qmatmulVars

---------------------------------------------------------------------------
(* qmatmul.py *)

NoLayer == [inC |-> 0, outC |-> 0, batch |-> 0, nodes |-> <<>>, compiled |-> FALSE]

NoRun == [X |-> <<>>, W |-> <<>>, scale |-> <<>>, exc |-> "", ran |-> FALSE]

\* shapes of the activation passed to run: rank 1 and rank 2
ArgShapes == {<<d>> : d \in Dims} \cup {<<d, e>> : d \in Dims, e \in Dims}
\* shapes of the weights and of the scale passed to run
MatrixShapes == {<<d, e>> : d \in Dims, e \in Dims}

\* QMatMul.__init__: one parameter of shape (batch, inC), one linear layer,
\* and the graph is compiled; one layer object is followed
QMatMul_init(inC, outC, batch) ==
    /\ layer = NoLayer
    /\ layer' = [inC |-> inC, outC |-> outC, batch |-> batch,
                 nodes |-> <<[op |-> "parameter", inputs |-> <<>>, args |-> <<batch, inC>>],
                             [op |-> "linear", inputs |-> <<1>>, args |-> <<outC, inC>>]>>,
                 compiled |-> TRUE]
    /\ UNCHANGED <<runs, qlast>>
    /\ UNCHANGED tensorVars

\* "not (X.shape[0] == self.batch and X.shape[1] == self.inC)": the second
\* comparison is evaluated only when the first holds, and indexing a shape
\* past its rank raises IndexError
input_check(self, X) ==
    IF Len(X) < 1 THEN "IndexError"
    ELSE IF X[1] /= self.batch THEN "RuntimeError"
    ELSE IF Len(X) < 2 THEN "IndexError"
    ELSE IF X[2] /= self.inC THEN "RuntimeError"
    ELSE "none"

\* QMatMul.run, lines 53-66: the three tests, each of them on X, then
\* super().run(X, (W, scale)); ok = FALSE is the backend rejecting the run
run(self, X, W, scale, ok) ==
    IF input_check(self, X) /= "none"
    THEN [exc |-> input_check(self, X), ran |-> FALSE]
    ELSE IF input_check(self, X) /= "none"
    THEN [exc |-> input_check(self, X), ran |-> FALSE]
    ELSE IF input_check(self, X) /= "none"
    THEN [exc |-> input_check(self, X), ran |-> FALSE]
    ELSE [exc |-> IF ok THEN "none" ELSE "BackendError", ran |-> TRUE]

QMatMul_run(X, W, scale, ok) ==
    /\ layer /= NoLayer
    /\ LET r == run(layer, X, W, scale, ok)
       IN  /\ runs' = IF r.ran THEN runs + 1 ELSE runs
           /\ runs' <= MaxRuns
           /\ qlast' = [X |-> X, W |-> W, scale |-> scale, exc |-> r.exc, ran |-> r.ran]
    /\ UNCHANGED layer
    /\ UNCHANGED tensorVars

---------------------------------------------------------------------------
(* Specifications *)

Init ==
    /\ graph = [f \in Factories |-> <<>>]
    /\ handles = {}
    /\ cache = <<>>
    /\ returned = <<>>
    /\ last = Call("", <<>>, "", <<>>, "none", NoTensor, <<>>, "")
    /\ layer = NoLayer
    /\ runs = 0
    /\ qlast = NoRun

CreateTensor == \E f \in Factories, shape \in ParamShapes, ok \in BOOLEAN : create_tensor(f, shape, ok)
Add == \E a \in handles, b \in handles, oks \in ForeignAnswers(1) : Tensor_add(a, b, oks)
Sub == \E a \in handles, b \in handles, oks \in ForeignAnswers(2) : Tensor_sub(a, b, oks)
Mul == \E a \in handles, b \in handles, oks \in ForeignAnswers(1) : Tensor_mul(a, b, oks)
TrueDiv == \E a \in handles, b \in handles, oks \in ForeignAnswers(1) : Tensor_truediv(a, b, oks)
Neg == \E a \in handles, oks \in ForeignAnswers(1) : Tensor_neg(a, oks)
MatMul == \E a \in handles, b \in handles, oks \in ForeignAnswers(1) : Tensor_matmul(a, b, oks)
Squeeze == \E a \in handles, oks \in ForeignAnswers(1) : Tensor_squeeze(a, oks)
Unsqueeze == \E a \in handles, axis \in Axes, oks \in ForeignAnswers(1) : Tensor_unsqueeze(a, axis, oks)
Transpose == \E a \in handles, oks \in ForeignAnswers(1) : Tensor_T(a, oks)
ShapeQuery == \E a \in handles : Tensor_shape(a)
DtypeQuery == \E a \in handles : Tensor_dtype(a)
LenQuery == \E a \in handles : Tensor_len(a)
DirectGenerateOp == \E req \in Requests(graph, handles), ok \in BOOLEAN : GenerateOp(req, ok)

Next ==
    \/ CreateTensor
    \/ Add
    \/ Sub
    \/ Mul
    \/ TrueDiv
    \/ Neg
    \/ MatMul
    \/ Squeeze
    \/ Unsqueeze
    \/ Transpose
    \/ ShapeQuery
    \/ DtypeQuery
    \/ LenQuery
    \/ DirectGenerateOp

\* tensor.py: handles, operators, queries and the core primitive
Spec == Init /\ [][Next]_vars

NewQMatMul == \E inC \in Dims, outC \in Dims, batch \in Dims : QMatMul_init(inC, outC, batch)
RunQMatMul == \E X \in ArgShapes, W \in MatrixShapes, scale \in MatrixShapes, ok \in BOOLEAN : QMatMul_run(X, W, scale, ok)

NextBackend ==
    \/ NewQMatMul
    \/ RunQMatMul
    \/ GetSupportedOps

\* ops.py and qmatmul.py: the catalogue and the quantized layer built on
\* the factory, neither of which touches a Tensor
SpecBackend == Init /\ [][NextBackend]_vars

---------------------------------------------------------------------------
(* Properties *)

BinaryOperators == {"__add__", "__sub__", "__mul__", "__truediv__", "__matmul__"}

\* the operation name each operator is documented to dispatch
DocumentedOp(call) ==
    CASE call = "__add__" -> "eltwise_add"
      [] call = "__mul__" -> "eltwise_mul"
      [] call = "__truediv__" -> "eltwise_div"
      [] call = "__neg__" -> "negative"
      [] call = "__matmul__" -> "matmul"
      [] call = "squeeze" -> "squeeze"
      [] call = "unsqueeze" -> "unsqueeze"

SingleDispatchOperators ==
    {"__add__", "__mul__", "__truediv__", "__neg__", "__matmul__", "squeeze", "unsqueeze"}

Owners(c) == {c.tensors[i].factory : i \in DOMAIN c.tensors}

NodeCountsKept == \A f \in Factories : Len(graph'[f]) = Len(graph[f])

\* C1: a binary operator (+, -, *, /, @) whose two operands have different
\* owning factories fails with ValueError, and the node count of every graph
\* is what it was before the operation.
C1_MixedOwnersRaiseValueError ==
    [][(last'.call \in BinaryOperators /\ Cardinality(Owners(last')) = 2)
          => (last'.exc = "ValueError" /\ NodeCountsKept)]_vars

\* C2: for a and b of one factory, a - b (the backend accepting both calls)
\* appends exactly a "negative" node on b's node and then an "eltwise_add"
\* node on a's node and the negation node, and returns a handle to the
\* addition node.
C2_SubAddsNegationThenAddition ==
    [][(last'.call = "__sub__" /\ Cardinality(Owners(last')) = 1
            /\ last'.exc /= "BackendError")
          => LET a == last'.tensors[1]
                 b == last'.tensors[2]
                 f == a.factory
                 n == Len(graph[f])
             IN  /\ last'.exc = "none"
                 /\ graph' = [graph EXCEPT ![f] = @ \o
                        << [op |-> "negative", inputs |-> <<b.node>>, args |-> <<>>],
                           [op |-> "eltwise_add", inputs |-> <<a.node, n + 1>>, args |-> <<>>] >>]
                 /\ last'.ret = Tensor(f, n + 2)]_vars

\* C3: each of +, *, /, unary -, @, squeeze() and unsqueeze(axis) on handles
\* of one factory (the backend accepting the call) makes exactly one dispatch
\* of the documented operation name with the operands' nodes in operand
\* order followed by the extra parameters, and returns a new handle of the
\* same owner on the node the dispatch returned.
C3_OperatorDispatchesOnce ==
    [][(last'.call \in SingleDispatchOperators /\ Cardinality(Owners(last')) = 1
            /\ last'.exc /= "BackendError")
          => LET f == last'.tensors[1].factory
                 n == Len(graph[f])
             IN  /\ last'.exc = "none"
                 /\ graph' = [graph EXCEPT ![f] = Append(@,
                        [op |-> DocumentedOp(last'.call),
                         inputs |-> [i \in DOMAIN last'.tensors |-> last'.tensors[i].node],
                         args |-> last'.args])]
                 /\ last'.ret = Tensor(f, n + 1)
                 /\ last'.ret \in handles']_vars

DocumentedDtypes ==
    <<"bool", "bfloat16", "float16", "float32", "float64",
      "int4", "int8", "int16", "int32", "int64">>

\* C4: the dtype query maps the codes 2..11 to boolean, bfloat16, float16,
\* float32, float64, int4, int8, int16, int32, int64 in that order, and
\* fails with the unsupported-dtype error on every other code, 0 and 1
\* included, without returning a type.
C4_DtypeClosedTable ==
    last.call = "dtype" =>
        LET code == last.args[1]
        IN  IF code \in 2 .. 11
            THEN last.exc = "none" /\ last.dt = DocumentedDtypes[code - 1]
            ELSE last.exc = "RuntimeError" /\ last.dt = ""

C4_Witness ==
    last.call = "dtype" /\ last.args = <<1>> /\ last.exc = "RuntimeError"

\* a call that reached the factory's operation: it returned or the backend
\* rejected it
Dispatched(c) ==
    /\ c.call \in BinaryOperators \cup SingleDispatchOperators \cup {"T", "generate_op"}
    /\ c.exc \in {"none", "BackendError"}

\* C5 as stated: whenever a tensor operation dispatches an operation name to
\* the factory, the registry has an entry of that name whose input count is
\* the number of handle operands.
C5_DispatchIsInRegistry ==
    Dispatched(last) =>
        HasEntry(get_supported_ops(cache).ret, last.op, Len(last.tensors))

\* C5 amended: nothing is validated against the registry.  A dispatched
\* request has a registry entry of its name and operand count exactly when
\* it is eltwise_add, eltwise_mul, eltwise_div, matmul or negative;
\* transpose, squeeze and unsqueeze have none and are dispatched as well.
C5_RegistryCoversArithmeticOnly ==
    Dispatched(last) =>
        (HasEntry(get_supported_ops(cache).ret, last.op, Len(last.tensors))
            <=> last.op \in {"eltwise_add", "eltwise_mul", "eltwise_div", "matmul", "negative"})

C5_Witness ==
    /\ last.call = "generate_op"
    /\ last.op = "transpose"
    /\ last.exc = "none"
    /\ graph[last.ret.factory][last.ret.node].op = "transpose"
    /\ ~HasEntry(get_supported_ops(cache).ret, "transpose", 1)

UniqueNames(ops) ==
    \A i \in DOMAIN ops, j \in DOMAIN ops : ops[i].name = ops[j].name => i = j

\* C6: all calls of get_supported_ops return the same entries in the same
\* order, with unique names, among them "matmul" with input count 2 and
\* "clamp" with exactly two float parameters.
C6_RegistryStable ==
    /\ \A i \in DOMAIN returned, j \in DOMAIN returned : returned[i] = returned[j]
    /\ \A i \in DOMAIN returned :
        /\ UniqueNames(returned[i])
        /\ HasEntry(returned[i], "matmul", 2)
        /\ \E k \in DOMAIN returned[i] :
            /\ returned[i][k].name = "clamp"
            /\ returned[i][k].parameters = <<"c_float", "c_float">>

C6_Witness == Len(returned) >= 2 /\ cache /= <<>>

\* the permutation T is documented to pass: every axis in place but the
\* last two, which are exchanged
DocumentedPermutation(rank) ==
    [i \in 1 .. rank |->
        IF i <= rank - 2 THEN i - 1 ELSE IF i = rank - 1 THEN rank - 1 ELSE rank - 2]

\* C7: T on a handle of rank n >= 2 (the backend accepting the call)
\* dispatches exactly one "transpose" whose permutation is
\* [0, ..., n-3, n-1, n-2].
C7_TransposeSwapsLastTwoAxes ==
    [][(last'.call = "T" /\ Len(last'.val) >= 2 /\ last'.exc /= "BackendError")
          => LET t == last'.tensors[1]
             IN  /\ last'.exc = "none"
                 /\ graph' = [graph EXCEPT ![t.factory] = Append(@,
                        [op |-> "transpose", inputs |-> <<t.node>>,
                         args |-> DocumentedPermutation(Len(last'.val))])]]_vars

\* C8 (for arrays of rank 2): run raises RuntimeError whenever X, W or scale
\* differs from (batch, inC), (outC, inC), (outC, 1), and calls the factory's
\* run only when all three match.
C8_RunRejectsEveryShapeMismatch ==
    (qlast.exc /= "" /\ Len(qlast.X) = 2) =>
        LET match == /\ qlast.X = <<layer.batch, layer.inC>>
                     /\ qlast.W = <<layer.outC, layer.inC>>
                     /\ qlast.scale = <<layer.outC, 1>>
        IN  /\ ~match => (qlast.exc = "RuntimeError" /\ ~qlast.ran)
            /\ qlast.ran => match

\* C9: len() of a handle returns the product of the dimensions of the shape
\* read from the backend: 20 for (4, 5) and 1 for the rank-0 shape ().
C9_LenIsElementCount ==
    last.call = "__len__" =>
        /\ last.exc = "none"
        /\ last.val = <<Product(last.args)>>
        /\ (last.args = <<4, 5>> => last.val = <<20>>)
        /\ (last.args = <<>> => last.val = <<1>>)

\* C10: every step leaves each graph an extension of what it was and keeps
\* every handle: nodes are only appended, none is changed or removed, also
\* by an operation that fails.
C10_AppendOnly ==
    [][/\ \A f \in Factories : IsPrefix(graph[f], graph'[f])
       /\ handles \subseteq handles']_vars

C10_Witness ==
    /\ last.call = "generate_op"
    /\ last.exc \in {"ValueError", "BackendError"}
    /\ TotalNodes(graph) >= 2

===========================================================================
